---- MODULE Spec2Model ----
(***************************************************************************)
(* Weighted regular-expression matcher (weighted-regexp-rs).               *)
(*                                                                         *)
(* A grammar is a tree of combinator nodes.  Every node implements the     *)
(* Regex trait {empty, active, shift, reset}.  The driver match_regex      *)
(* feeds a sequence of symbols through the root, one shift per symbol.     *)
(*                                                                         *)
(* Two revisions of the combinators live in the repository:                *)
(*   ver = "core"     : src/src/core.rs (Option-based Many, no Thunk, the  *)
(*                      AnyRegex wrapper is a plain delegation);           *)
(*   ver = "grammars" : src/src/grammars.rs (zero-initialised Many, Thunk, *)
(*                      the active() signal, children held in AnyRegex).   *)
(* The weight type M is the boolean Match semiring (sr = "Match") or a     *)
(* counting semiring over the naturals (sr = "Count").                     *)
(***************************************************************************)
EXTENDS Integers, Sequences, FiniteSets, TLC

VARIABLES
    ver,        \* revision of the combinators the tree is built from
    sr,         \* the weight type M of the tree
    shape,      \* the tree as the caller composed it (never mutated)
    re,         \* the tree the driver works on, with its transient state
    consumed,   \* symbols the iterator has yielded in the current match
    result,     \* match_regex's local `result`
    pc,         \* position of the driver: "idle", "loop", "returned";
                \* "calls" when the caller calls the Regex methods itself
    earlier,    \* the match the tree went through before the current one:
                \* "none", "empty" (no symbol, so no reset) or "symbols"
    calls,      \* the shift calls made on the root in the current match:
                \* the symbol (c), the mark passed (mark), the mark returned (out)
    frame       \* the activation of Sequence::shift on the root, when the
                \* call is followed statement by statement: its locals and
                \* the calls it has made so far (trace)

vars == <<ver, sr, shape, re, consumed, result, pc, earlier, calls, frame>>

\* ------------------------------------------------------------------ bounds
MaxLen == 3
MaxParenLen == 6
MaxPrev == 2
MaxCalls == 3
MaxRounds == 2

\* ---------------------------------------------------------------- symbols
Sigma == {"(", ")", "x"}

\* ------------------------------------------------- the Match semiring
\* Match(bool) is a one-field tuple struct.
Match(b) == <<b>>
Match_add(self, rhs) == Match(self[1] \/ rhs[1])
Match_zero == Match(FALSE)
Match_is_zero(self) == ~self[1]
Match_mul(self, rhs) == Match(self[1] /\ rhs[1])
Match_one == Match(TRUE)

\* ------------------------------------------------- a counting semiring
Count_zero == 0
Count_one == 1
Count_add(self, rhs) == self + rhs
Count_mul(self, rhs) == self * rhs
Count_is_zero(self) == self = 0

\* ------------------------------------------- the weight type M of the tree
zero == IF sr = "Match" THEN Match_zero ELSE Count_zero
one == IF sr = "Match" THEN Match_one ELSE Count_one
M_add(a, b) == IF sr = "Match" THEN Match_add(a, b) ELSE Count_add(a, b)
M_mul(a, b) == IF sr = "Match" THEN Match_mul(a, b) ELSE Count_mul(a, b)
is_zero(m) == IF sr = "Match" THEN Match_is_zero(m) ELSE Count_is_zero(m)

\* ------------------------------------------------------------ predicates
\* The closures handed to is(): each maps a symbol to zero() or one().
Preds == {"open", "close", "any", "none"}

Holds(f, c) ==
    CASE f = "open" -> c = "("
      [] f = "close" -> c = ")"
      [] f = "any" -> TRUE
      [] f = "none" -> FALSE
      [] f = "paren" -> c \in {"(", ")"}
      [] f = "not_open" -> c # "("

call(f, c) == IF Holds(f, c) THEN one ELSE zero

\* ---------------------------------------------------------- constructors
None == <<>>
Some(x) == <<x>>

empty == [kind |-> "Empty"]
is(f) == [kind |-> "Is", f |-> f]
Not_not(r) == [kind |-> "Not", re |-> r]
bitor(l, r) == [kind |-> "Or", left |-> l, right |-> r]
bitand(l, r) == [kind |-> "And", left |-> l, right |-> r]
add(l, r) == [kind |-> "Sequence", left |-> l, right |-> r, from_left |-> zero]
\* many of core.rs: marked is an Option<M>, None at construction.
core_many(r) == [kind |-> "Many", re |-> r, marked |-> None]
\* many of grammars.rs: marked is an M, zero at construction.
grammars_many(r) == [kind |-> "Many", re |-> r, marked |-> zero]
many(r) == IF ver = "core" THEN core_many(r) ELSE grammars_many(r)
delay(constructor) == [kind |-> "Thunk", constructor |-> constructor, value |-> None]

\* The recursive grammar of balanced parentheses; delay stores the
\* constructor's name, so building the tree does not recurse.
parens == many(add(add(is("open"), delay("parens")), is("close")))

\* delay(|| is(|&b| Match(b)).boxed())
delayed == delay("delayed")

\* Invoking a Thunk's constructor closure.
construct(constructor) ==
    CASE constructor = "parens" -> parens
      [] constructor = "delayed" -> is("open")
      [] constructor = "complement" -> Not_not(is("open"))

\* ------------------------------------------------------- Regex::active
RECURSIVE Regex_active(_)

Empty_active(self) == FALSE
Is_active(self) == FALSE
\* Complement grammars are always active.
Not_active(self) == TRUE
Or_active(self) == Regex_active(self.left) \/ Regex_active(self.right)
And_active(self) == Regex_active(self.left) /\ Regex_active(self.right)
Sequence_active(self) ==
    ~is_zero(self.from_left) \/ Regex_active(self.left) \/ Regex_active(self.right)
\* Mutant: a repetition with a buffered mark but an idle child reports idle.
Many_active_ignores_marked(self) == Regex_active(self.re)
Many_active(self) == ~is_zero(self.marked) \/ Regex_active(self.re)
Thunk_active(self) ==
    IF self.value = None THEN FALSE ELSE Regex_active(self.value[1])

Regex_active(self) ==
    CASE self.kind = "Empty" -> Empty_active(self)
      [] self.kind = "Is" -> Is_active(self)
      [] self.kind = "Not" -> Not_active(self)
      [] self.kind = "Or" -> Or_active(self)
      [] self.kind = "And" -> And_active(self)
      [] self.kind = "Sequence" -> Sequence_active(self)
      [] self.kind = "Many" -> Many_active(self)
      [] self.kind = "Thunk" -> Thunk_active(self)

\* -------------------------------------------------------- Regex::empty
\* empty takes &mut self in grammars.rs: it may force a Thunk.  The result
\* is the node after the call (self) and the boolean returned (val).
RECURSIVE Regex_empty(_)

\* Mutant: the constructor is invoked on every use, cached child or not.
Thunk_force_always_constructs(self) ==
    [self EXCEPT !.value = Some(construct(self.constructor))]
\* Mutant: the constructor is not invoked, the cache stays empty.
Thunk_force_constructs_nothing(self) == self
Thunk_force(self) ==
    IF self.value = None
    THEN [self EXCEPT !.value = Some(construct(self.constructor))]
    ELSE self

Empty_empty(self) == [self |-> self, val |-> TRUE]
Is_empty(self) == [self |-> self, val |-> FALSE]
Not_empty(self) ==
    LET r == Regex_empty(self.re)
    IN  [self |-> [self EXCEPT !.re = r.self], val |-> ~r.val]

\* Mutant: both children must match empty.
Or_empty_needs_both(self) ==
    LET l == Regex_empty(self.left)
        r == Regex_empty(self.right)
    IN  IF ~l.val
        THEN [self |-> [self EXCEPT !.left = l.self], val |-> FALSE]
        ELSE [self |-> [self EXCEPT !.left = l.self, !.right = r.self], val |-> r.val]

\* self.left.empty() || self.right.empty(): the right is not evaluated
\* when the left returns true.
Or_empty(self) ==
    LET l == Regex_empty(self.left)
        r == Regex_empty(self.right)
    IN  IF l.val
        THEN [self |-> [self EXCEPT !.left = l.self], val |-> TRUE]
        ELSE [self |-> [self EXCEPT !.left = l.self, !.right = r.self], val |-> r.val]
\* self.left.empty() && self.right.empty(): the right is not evaluated
\* when the left returns false.
And_empty(self) ==
    LET l == Regex_empty(self.left)
        r == Regex_empty(self.right)
    IN  IF ~l.val
        THEN [self |-> [self EXCEPT !.left = l.self], val |-> FALSE]
        ELSE [self |-> [self EXCEPT !.left = l.self, !.right = r.self], val |-> r.val]
\* Mutant: a sequence holding a mark between its children matches empty.
Sequence_empty_tracks_from_left(self) ==
    LET l == Regex_empty(self.left)
        r == Regex_empty(self.right)
    IN  IF ~l.val
        THEN [self |-> [self EXCEPT !.left = l.self], val |-> ~is_zero(self.from_left)]
        ELSE [self |-> [self EXCEPT !.left = l.self, !.right = r.self],
              val |-> r.val \/ ~is_zero(self.from_left)]
\* Mutant: a sequence matches empty when either child does.
Sequence_empty_either(self) ==
    LET l == Regex_empty(self.left)
        r == Regex_empty(self.right)
    IN  IF l.val
        THEN [self |-> [self EXCEPT !.left = l.self], val |-> TRUE]
        ELSE [self |-> [self EXCEPT !.left = l.self, !.right = r.self], val |-> r.val]
Sequence_empty(self) ==
    LET l == Regex_empty(self.left)
        r == Regex_empty(self.right)
    IN  IF ~l.val
        THEN [self |-> [self EXCEPT !.left = l.self], val |-> FALSE]
        ELSE [self |-> [self EXCEPT !.left = l.self, !.right = r.self], val |-> r.val]
\* Mutant: a repetition matches empty only while it buffers a mark.
Many_empty_tracks_marked(self) ==
    [self |-> self,
     val |-> IF ver = "core" THEN self.marked # None ELSE ~is_zero(self.marked)]
Many_empty(self) == [self |-> self, val |-> TRUE]
Thunk_empty(self) ==
    LET forced == Thunk_force(self)
        v == Regex_empty(forced.value[1])
    IN  [self |-> [forced EXCEPT !.value = Some(v.self)], val |-> v.val]

Regex_empty(self) ==
    CASE self.kind = "Empty" -> Empty_empty(self)
      [] self.kind = "Is" -> Is_empty(self)
      [] self.kind = "Not" -> Not_empty(self)
      [] self.kind = "Or" -> Or_empty(self)
      [] self.kind = "And" -> And_empty(self)
      [] self.kind = "Sequence" -> Sequence_empty(self)
      [] self.kind = "Many" -> Many_empty(self)
      [] self.kind = "Thunk" -> Thunk_empty(self)

\* -------------------------------------------------------- Regex::shift
\* The result is the node after the call (self) and the mark returned (out).
RECURSIVE Regex_shift(_, _, _)

\* AnyRegex of core.rs: a plain delegation to the wrapped grammar.
AnyRegex_shift(self, c, mark) == Regex_shift(self, c, mark)

\* AnyRegex of the revision grammars.rs is written against: a grammar that
\* is not active and is handed a zero mark is not shifted at all.
AnyRegex_shift_active(self, c, mark) ==
    IF is_zero(mark) /\ ~Regex_active(self)
    THEN [self |-> self, out |-> zero]
    ELSE Regex_shift(self, c, mark)

\* A call of shift on a child or on the root, through its AnyRegex wrapper.
shift(self, c, mark) ==
    IF ver = "grammars"
    THEN AnyRegex_shift_active(self, c, mark)
    ELSE AnyRegex_shift(self, c, mark)

\* Mutant: Empty lets the incoming mark through.
Empty_shift_passes_mark(self, c, mark) == [self |-> self, out |-> mark]
Empty_shift(self, c, mark) == [self |-> self, out |-> zero]

\* Mutant: the closure's weight is returned without the incoming mark.
Is_shift_ignores_mark(self, c, mark) == [self |-> self, out |-> call(self.f, c)]
Is_shift(self, c, mark) == [self |-> self, out |-> M_mul(mark, call(self.f, c))]

\* Mutant: the child's mark is returned as it is.
Not_shift_uncomplemented(self, c, mark) ==
    LET new_mark == shift(self.re, c, mark)
    IN  [self |-> [self EXCEPT !.re = new_mark.self], out |-> new_mark.out]
Not_shift(self, c, mark) ==
    LET new_mark == shift(self.re, c, mark)
    IN  [self |-> [self EXCEPT !.re = new_mark.self],
         out |-> IF is_zero(new_mark.out) THEN one ELSE zero]

\* Mutant: the right child's mark is dropped from the sum.
Or_shift_left_only(self, c, mark) ==
    LET l == shift(self.left, c, mark)
        r == shift(self.right, c, mark)
    IN  [self |-> [self EXCEPT !.left = l.self, !.right = r.self], out |-> l.out]
Or_shift(self, c, mark) ==
    LET l == shift(self.left, c, mark)
        r == shift(self.right, c, mark)
    IN  [self |-> [self EXCEPT !.left = l.self, !.right = r.self],
         out |-> M_add(l.out, r.out)]

\* Mutant: the left child is shifted twice with the symbol.
And_shift_left_twice(self, c, mark) ==
    LET first == shift(self.left, c, mark)
        l == shift(first.self, c, mark)
        r == shift(self.right, c, mark)
    IN  [self |-> [self EXCEPT !.left = l.self, !.right = r.self],
         out |-> M_mul(l.out, r.out)]
\* Mutant: the children's marks are added, not multiplied.
And_shift_adds(self, c, mark) ==
    LET l == shift(self.left, c, mark)
        r == shift(self.right, c, mark)
    IN  [self |-> [self EXCEPT !.left = l.self, !.right = r.self],
         out |-> M_add(l.out, r.out)]
And_shift(self, c, mark) ==
    LET l == shift(self.left, c, mark)
        r == shift(self.right, c, mark)
    IN  [self |-> [self EXCEPT !.left = l.self, !.right = r.self],
         out |-> M_mul(l.out, r.out)]

\* Mutant: the left child's output never skips a right child that matches
\* empty.
Sequence_shift_no_skip_right(self, c, mark) ==
    LET left_empty == Regex_empty(self.left)
        skip_empty_left == IF left_empty.val THEN mark ELSE zero
        l == shift(left_empty.self, c, mark)
        right_empty == Regex_empty(self.right)
        r == shift(right_empty.self, c, M_add(skip_empty_left, self.from_left))
    IN  [self |-> [self EXCEPT !.left = l.self, !.right = r.self,
                               !.from_left = l.out],
         out |-> r.out]
\* Mutant: the incoming mark never skips a left child that matches empty.
Sequence_shift_no_skip_left(self, c, mark) ==
    LET left_empty == Regex_empty(self.left)
        l == shift(left_empty.self, c, mark)
        right_empty == Regex_empty(self.right)
        skip_empty_right == IF right_empty.val THEN l.out ELSE zero
        r == shift(right_empty.self, c, self.from_left)
    IN  [self |-> [self EXCEPT !.left = l.self, !.right = r.self,
                               !.from_left = l.out],
         out |-> M_add(skip_empty_right, r.out)]
Sequence_shift(self, c, mark) ==
    LET from_input == mark
        left_empty == Regex_empty(self.left)
        skip_empty_left == IF left_empty.val THEN from_input ELSE zero
        l == shift(left_empty.self, c, from_input)
        from_left == l.out
        right_empty == Regex_empty(self.right)
        skip_empty_right == IF right_empty.val THEN from_left ELSE zero
        old_from_left == self.from_left
        r == shift(right_empty.self, c, M_add(skip_empty_left, old_from_left))
        from_right == r.out
    IN  [self |-> [self EXCEPT !.left = l.self, !.right = r.self,
                               !.from_left = from_left],
         out |-> M_add(skip_empty_right, from_right)]

\* Mutant: the incoming mark is returned as a match of zero repeats.
Many_shift_counts_zero_repeats(self, c, mark) ==
    LET was_marked == self.marked
        new_mark == shift(self.re, c, M_add(mark, was_marked))
    IN  [self |-> [self EXCEPT !.re = new_mark.self, !.marked = new_mark.out],
         out |-> M_add(mark, new_mark.out)]
\* Mutant: the buffered mark of the earlier repeats is not fed back.
Many_shift_forgets_marked(self, c, mark) ==
    LET new_mark == shift(self.re, c, mark)
    IN  [self |-> [self EXCEPT !.re = new_mark.self, !.marked = new_mark.out],
         out |-> new_mark.out]
\* grammars.rs: marked is an M, zero when nothing is buffered.
Many_shift(self, c, mark) ==
    LET was_marked == self.marked
        new_mark == shift(self.re, c, M_add(mark, was_marked))
    IN  [self |-> [self EXCEPT !.re = new_mark.self, !.marked = new_mark.out],
         out |-> new_mark.out]

\* Mutant: the mark taken out of the buffer is dropped.
core_Many_shift_drops_taken(self, c, mark) ==
    LET new_mark == shift(self.re, c, mark)
    IN  [self |-> [self EXCEPT !.re = new_mark.self, !.marked = Some(new_mark.out)],
         out |-> new_mark.out]
\* core.rs: marked is an Option<M>, None when nothing is buffered.
core_Many_shift(self, c, mark) ==
    LET was_marked == IF self.marked = None THEN zero ELSE self.marked[1]
        new_mark == shift(self.re, c, M_add(mark, was_marked))
    IN  [self |-> [self EXCEPT !.re = new_mark.self, !.marked = Some(new_mark.out)],
         out |-> new_mark.out]

Thunk_shift(self, c, mark) ==
    LET forced == Thunk_force(self)
        v == Regex_shift(forced.value[1], c, mark)
    IN  [self |-> [forced EXCEPT !.value = Some(v.self)], out |-> v.out]

Regex_shift(self, c, mark) ==
    CASE self.kind = "Empty" -> Empty_shift(self, c, mark)
      [] self.kind = "Is" -> Is_shift(self, c, mark)
      [] self.kind = "Not" -> Not_shift(self, c, mark)
      [] self.kind = "Or" -> Or_shift(self, c, mark)
      [] self.kind = "And" -> And_shift(self, c, mark)
      [] self.kind = "Sequence" -> Sequence_shift(self, c, mark)
      [] self.kind = "Many" ->
            IF ver = "core" THEN core_Many_shift(self, c, mark)
            ELSE Many_shift(self, c, mark)
      [] self.kind = "Thunk" -> Thunk_shift(self, c, mark)

\* -------------------------------------------------------- Regex::reset
RECURSIVE Regex_reset(_)

Empty_reset(self) == self
Is_reset(self) == self
Not_reset(self) == [self EXCEPT !.re = Regex_reset(self.re)]
Or_reset(self) ==
    [self EXCEPT !.left = Regex_reset(self.left), !.right = Regex_reset(self.right)]
And_reset(self) ==
    [self EXCEPT !.left = Regex_reset(self.left), !.right = Regex_reset(self.right)]
\* Mutant: the children are reset, the buffer is not.
Sequence_reset_keeps_from_left(self) ==
    [self EXCEPT !.left = Regex_reset(self.left), !.right = Regex_reset(self.right)]
Sequence_reset(self) ==
    [self EXCEPT !.left = Regex_reset(self.left), !.right = Regex_reset(self.right),
                 !.from_left = zero]
\* Mutant: the buffered mark survives the reset.
Many_reset_keeps_marked(self) == [self EXCEPT !.re = Regex_reset(self.re)]
Many_reset(self) == [self EXCEPT !.re = Regex_reset(self.re), !.marked = zero]
core_Many_reset(self) == [self EXCEPT !.re = Regex_reset(self.re), !.marked = None]
\* Mutant: the forced child is reset in place, not discarded.
Thunk_reset_in_place(self) ==
    IF self.value = None THEN self
    ELSE [self EXCEPT !.value = Some(Regex_reset(self.value[1]))]
\* Mutant: the forced child is kept, state and all.
Thunk_reset_keeps_value(self) == self
Thunk_reset(self) == [self EXCEPT !.value = None]

Regex_reset(self) ==
    CASE self.kind = "Empty" -> Empty_reset(self)
      [] self.kind = "Is" -> Is_reset(self)
      [] self.kind = "Not" -> Not_reset(self)
      [] self.kind = "Or" -> Or_reset(self)
      [] self.kind = "And" -> And_reset(self)
      [] self.kind = "Sequence" -> Sequence_reset(self)
      [] self.kind = "Many" ->
            IF ver = "core" THEN core_Many_reset(self) ELSE Many_reset(self)
      [] self.kind = "Thunk" -> Thunk_reset(self)

\* ------------------------------------------- Clone and CloneRegex
\* clone(&self) of core.rs and clone_reset(&self) of grammars.rs: the tree
\* returned.  Both borrow the tree immutably.
RECURSIVE Regex_clone(_)

\* #[derive(Clone)] of core.rs on Empty, Not, Or and And: every field is
\* cloned.
derive_Clone(self) ==
    CASE self.kind = "Empty" -> self
      [] self.kind = "Not" -> [self EXCEPT !.re = Regex_clone(self.re)]
      [] self.kind \in {"Or", "And"} ->
            [self EXCEPT !.left = Regex_clone(self.left),
                         !.right = Regex_clone(self.right)]

Empty_clone_reset(self) == empty
Is_clone_reset(self) == is(self.f)
Not_clone_reset(self) == Not_not(Regex_clone(self.re))
Or_clone_reset(self) == bitor(Regex_clone(self.left), Regex_clone(self.right))
And_clone_reset(self) == bitand(Regex_clone(self.left), Regex_clone(self.right))
\* Mutant: the sequence is cloned field by field, from_left included.
Sequence_clone_derived(self) ==
    [self EXCEPT !.left = Regex_clone(self.left), !.right = Regex_clone(self.right)]
\* Both revisions rebuild the sequence with + from the clones of the
\* children.
Sequence_clone(self) == add(Regex_clone(self.left), Regex_clone(self.right))
\* Mutant: the repetition is cloned field by field, marked included.
Many_clone_derived(self) == [self EXCEPT !.re = Regex_clone(self.re)]
\* Both revisions rebuild the repetition with many() from the clone of the
\* child.
Many_clone(self) == many(Regex_clone(self.re))
\* Mutant: the cached child is cloned along with the constructor.
Thunk_clone_keeps_value(self) ==
    IF self.value = None THEN self
    ELSE [self EXCEPT !.value = Some(Regex_clone(self.value[1]))]
Thunk_clone_reset(self) == delay(self.constructor)

Regex_clone(self) ==
    CASE self.kind = "Is" -> Is_clone_reset(self)
      [] self.kind = "Sequence" -> Sequence_clone(self)
      [] self.kind = "Many" -> Many_clone(self)
      [] self.kind = "Thunk" -> Thunk_clone_reset(self)
      [] self.kind = "Empty" ->
            IF ver = "core" THEN derive_Clone(self) ELSE Empty_clone_reset(self)
      [] self.kind = "Not" ->
            IF ver = "core" THEN derive_Clone(self) ELSE Not_clone_reset(self)
      [] self.kind = "Or" ->
            IF ver = "core" THEN derive_Clone(self) ELSE Or_clone_reset(self)
      [] self.kind = "And" ->
            IF ver = "core" THEN derive_Clone(self) ELSE And_clone_reset(self)

\* ------------------------------------------------------------ the driver
\* match_regex as one call: the tree after the call (self) and the weight
\* returned (out).  match_loop is its `while let Some(c) = iter.next()`.
RECURSIVE match_loop(_, _, _, _)
match_loop(self, over, i, last) ==
    IF i > Len(over)
    THEN [self |-> Regex_reset(self), out |-> last]
    ELSE LET s == shift(self, over[i], zero)
         IN  match_loop(s.self, over, i + 1, s.out)

match_regex(self, over) ==
    IF Len(over) = 0
    THEN LET e == Regex_empty(self)
         IN  [self |-> e.self, out |-> IF e.val THEN one ELSE zero]
    ELSE LET s == shift(self, over[1], one)
         IN  match_loop(s.self, over, 2, s.out)

\* has_match extracts the bool of the Match the driver returns.
has_match(self, over) == match_regex(self, over).out[1]

\* ------------------------------------------------------ grammars composed
Leaves == {empty} \cup {is(f) : f \in Preds}

Base ==
    Leaves \cup
    { many(is("open")),
      many(is("any")),
      add(is("open"), is("close")),
      bitor(empty, is("any")),
      Not_not(is("open")) }

\* Grammars with a lazy subtree exist in the grammars.rs revision only.
Lazy ==
    IF ver = "grammars"
    THEN {parens, delayed, add(empty, delayed), bitor(delayed, empty), many(delayed),
          delay("complement")}
    ELSE {}

\* The grammar of the `and` test: two repetitions of overlapping predicates.
Examples == {bitand(many(is("paren")), many(is("not_open")))}

\* An intersection as the right child of a sequence and as the child of a
\* repetition.
Nested ==
    { add(many(is("any")), bitand(add(is("open"), is("open")), is("open"))),
      add(bitor(empty, add(is("any"), is("any"))),
          bitand(add(is("open"), is("open")), is("open"))),
      add(is("open"), bitand(many(is("paren")), many(is("not_open")))),
      many(bitand(is("paren"), is("not_open"))) }

Shapes ==
    Base
    \cup Examples
    \cup Nested
    \cup {Not_not(b) : b \in Base}
    \cup {many(b) : b \in Base}
    \cup {many(many(b)) : b \in Base}
    \cup {bitor(l, r) : l, r \in Base}
    \cup {bitand(l, r) : l, r \in Base}
    \cup {add(l, r) : l, r \in Base}
    \cup Lazy

\* The longest input the caller's iterator yields for the tree.
LenBound == IF shape = parens THEN MaxParenLen ELSE MaxLen

\* No activation of Sequence::shift is followed.
no_frame == [trace |-> <<>>]

\* ------------------------------------------------------------------ Init
Init ==
    /\ ver \in {"core", "grammars"}
    /\ sr \in {"Match", "Count"}
    /\ shape \in Shapes
    /\ re = shape
    /\ consumed = <<>>
    /\ result = zero
    /\ pc = "idle"
    /\ earlier = "none"
    /\ calls = <<>>
    /\ frame = no_frame

\* --------------------------------------------------------------- actions
\* match_regex on an iterator that yields nothing: no shift, no reset.
MatchEmptyInput ==
    /\ pc = "idle"
    /\ LET e == Regex_empty(re)
       IN  /\ re' = e.self
           /\ result' = IF e.val THEN one ELSE zero
    /\ pc' = "returned"
    /\ UNCHANGED <<frame, ver, sr, shape, consumed, earlier, calls>>

\* The first symbol is shifted with one().
ShiftFirst(c) ==
    /\ pc = "idle"
    /\ LenBound >= 1
    /\ LET mark == one
           s == shift(re, c, mark)
       IN  /\ re' = s.self
           /\ result' = s.out
           /\ calls' = Append(calls, [c |-> c, mark |-> mark, out |-> s.out])
    /\ consumed' = <<c>>
    /\ pc' = "loop"
    /\ UNCHANGED <<frame, ver, sr, shape, earlier>>

\* Mutant: every symbol is shifted with one().
ShiftNext_seeds_one(c) ==
    /\ pc = "loop"
    /\ Len(consumed) < LenBound
    /\ LET mark == one
           s == shift(re, c, mark)
       IN  /\ re' = s.self
           /\ result' = s.out
           /\ calls' = Append(calls, [c |-> c, mark |-> mark, out |-> s.out])
    /\ consumed' = Append(consumed, c)
    /\ UNCHANGED <<frame, ver, sr, shape, pc, earlier>>

\* Every later symbol is shifted with zero().
ShiftNext(c) ==
    /\ pc = "loop"
    /\ Len(consumed) < LenBound
    /\ LET mark == zero
           s == shift(re, c, mark)
       IN  /\ re' = s.self
           /\ result' = s.out
           /\ calls' = Append(calls, [c |-> c, mark |-> mark, out |-> s.out])
    /\ consumed' = Append(consumed, c)
    /\ UNCHANGED <<frame, ver, sr, shape, pc, earlier>>

\* The iterator is exhausted: reset the tree and return the last result.
ResetReturn ==
    /\ pc = "loop"
    /\ re' = Regex_reset(re)
    /\ pc' = "returned"
    /\ UNCHANGED <<frame, ver, sr, shape, consumed, result, earlier, calls>>

\* The caller hands the same tree to the driver again.
MatchAgain ==
    /\ pc = "returned"
    /\ pc' = "idle"
    /\ consumed' = <<>>
    /\ result' = zero
    /\ earlier' = IF Len(consumed) = 0 THEN "empty" ELSE "symbols"
    /\ calls' = <<>>
    /\ UNCHANGED <<frame, ver, sr, shape, re>>

Next ==
    \/ MatchEmptyInput
    \/ \E c \in Sigma : ShiftFirst(c)
    \/ \E c \in Sigma : ShiftNext(c)
    \/ ResetReturn
    \/ MatchAgain

Spec == Init /\ [][Next]_vars

\* ------------------------------------------- a caller of the Regex trait
\* The methods of the trait are public: a caller may call empty, shift and
\* reset on a tree in any order and with any mark.
CallShapes ==
    (Base \ {is(f) : f \in Preds \ {"open"}}) \cup Examples \cup Lazy

InitCalls ==
    /\ ver \in {"core", "grammars"}
    /\ sr \in {"Match", "Count"}
    /\ shape \in CallShapes
    /\ re = shape
    /\ consumed = <<>>
    /\ result = zero
    /\ pc = "calls"
    /\ earlier = "none"
    /\ calls = <<>>
    /\ frame = no_frame

CallEmpty ==
    /\ pc = "calls"
    /\ re' = Regex_empty(re).self
    /\ UNCHANGED <<frame, ver, sr, shape, consumed, result, pc, earlier, calls>>

\* calls holds every shift since construction, consumed the symbols
\* shifted since the last reset.
CallShift(c, mark) ==
    /\ pc = "calls"
    /\ Len(calls) < MaxCalls
    /\ LET s == shift(re, c, mark)
       IN  /\ re' = s.self
           /\ result' = s.out
           /\ calls' = Append(calls, [c |-> c, mark |-> mark, out |-> s.out])
    /\ consumed' = Append(consumed, c)
    /\ UNCHANGED <<frame, ver, sr, shape, pc, earlier>>

CallReset ==
    /\ pc = "calls"
    /\ re' = Regex_reset(re)
    /\ consumed' = <<>>
    /\ UNCHANGED <<frame, ver, sr, shape, result, pc, earlier, calls>>

NextCalls ==
    \/ CallEmpty
    \/ \E c \in Sigma, mark \in {zero, one} : CallShift(c, mark)
    \/ CallReset

SpecCalls == InitCalls /\ [][NextCalls]_vars

\* ------------------------------- Sequence::shift, statement by statement
\* The root is a Sequence; a caller shifts it for up to MaxRounds rounds and
\* may reset it between rounds.  pc names the statement to execute next.
SeqChildren ==
    { empty, is("open"), is("any"), many(is("open")),
      bitor(empty, is("any")), add(is("open"), is("close")) }
    \cup (IF ver = "grammars" THEN {delayed, delay("parens")} ELSE {})

SeqShapes == {add(l, r) : l, r \in SeqChildren}

InitSeq ==
    /\ ver \in {"core", "grammars"}
    /\ sr \in {"Match", "Count"}
    /\ shape \in SeqShapes
    /\ re = shape
    /\ consumed = <<>>
    /\ result = zero
    /\ pc = "ready"
    /\ earlier = "none"
    /\ calls = <<>>
    /\ frame = no_frame

\* One call made by Sequence::shift: what was called, the mark passed
\* (None for empty) and what came back.
event(name, arg, ret) == [call |-> name, arg |-> arg, ret |-> ret]

\* Mutant: the call starts at the shift of the left child.
SeqCall_skips_left_empty(c, mark) ==
    /\ pc = "ready"
    /\ Len(calls) < MaxRounds
    /\ frame' = [before |-> re, c |-> c, from_input |-> mark,
                 skip_empty_left |-> zero, from_left |-> zero,
                 skip_empty_right |-> zero, old_from_left |-> zero,
                 from_right |-> zero, trace |-> <<>>]
    /\ pc' = "left_shift"
    /\ UNCHANGED <<ver, sr, shape, re, consumed, result, earlier, calls>>

\* let from_input = Unshifted(mark);
SeqCall(c, mark) ==
    /\ pc = "ready"
    /\ Len(calls) < MaxRounds
    /\ frame' = [before |-> re, c |-> c, from_input |-> mark,
                 skip_empty_left |-> zero, from_left |-> zero,
                 skip_empty_right |-> zero, old_from_left |-> zero,
                 from_right |-> zero, trace |-> <<>>]
    /\ pc' = "left_empty"
    /\ UNCHANGED <<ver, sr, shape, re, consumed, result, earlier, calls>>

\* let skip_empty_left = if self.left.empty() { from_input.clone() } else { zero };
SeqLeftEmpty ==
    /\ pc = "left_empty"
    /\ LET e == Regex_empty(re.left)
       IN  /\ re' = [re EXCEPT !.left = e.self]
           /\ frame' = [frame EXCEPT
                  !.skip_empty_left = IF e.val THEN frame.from_input ELSE zero,
                  !.trace = Append(@, event("left.empty", None, e.val))]
    /\ pc' = "left_shift"
    /\ UNCHANGED <<ver, sr, shape, consumed, result, earlier, calls>>

\* let from_left = Shifted(self.left.shift(c, unshifted(from_input)));
SeqLeftShift ==
    /\ pc = "left_shift"
    /\ LET l == shift(re.left, frame.c, frame.from_input)
       IN  /\ re' = [re EXCEPT !.left = l.self]
           /\ frame' = [frame EXCEPT
                  !.from_left = l.out,
                  !.trace = Append(@, event("left.shift", frame.from_input, l.out))]
    /\ pc' = "right_empty"
    /\ UNCHANGED <<ver, sr, shape, consumed, result, earlier, calls>>

\* let skip_empty_right = if self.right.empty() { from_left.clone() } else { zero };
SeqRightEmpty ==
    /\ pc = "right_empty"
    /\ LET e == Regex_empty(re.right)
       IN  /\ re' = [re EXCEPT !.right = e.self]
           /\ frame' = [frame EXCEPT
                  !.skip_empty_right = IF e.val THEN frame.from_left ELSE zero,
                  !.trace = Append(@, event("right.empty", None, e.val))]
    /\ pc' = "replace"
    /\ UNCHANGED <<ver, sr, shape, consumed, result, earlier, calls>>

\* let old_from_left = Unshifted(replace(&mut self.from_left, shifted(from_left)));
SeqReplace ==
    /\ pc = "replace"
    /\ re' = [re EXCEPT !.from_left = frame.from_left]
    /\ frame' = [frame EXCEPT
           !.old_from_left = re.from_left,
           !.trace = Append(@, event("replace", frame.from_left, re.from_left))]
    /\ pc' = "right_shift"
    /\ UNCHANGED <<ver, sr, shape, consumed, result, earlier, calls>>

\* Mutant: the right child is handed the left child's output of this round.
SeqRightShift_passes_new_from_left ==
    /\ pc = "right_shift"
    /\ LET to_right == M_add(frame.skip_empty_left, frame.from_left)
           r == shift(re.right, frame.c, to_right)
       IN  /\ re' = [re EXCEPT !.right = r.self]
           /\ frame' = [frame EXCEPT
                  !.from_right = r.out,
                  !.trace = Append(@, event("right.shift", to_right, r.out))]
    /\ pc' = "return"
    /\ UNCHANGED <<ver, sr, shape, consumed, result, earlier, calls>>

\* let from_right = Shifted(self.right.shift(c,
\*     unshifted(skip_empty_left) + unshifted(old_from_left)));
SeqRightShift ==
    /\ pc = "right_shift"
    /\ LET to_right == M_add(frame.skip_empty_left, frame.old_from_left)
           r == shift(re.right, frame.c, to_right)
       IN  /\ re' = [re EXCEPT !.right = r.self]
           /\ frame' = [frame EXCEPT
                  !.from_right = r.out,
                  !.trace = Append(@, event("right.shift", to_right, r.out))]
    /\ pc' = "return"
    /\ UNCHANGED <<ver, sr, shape, consumed, result, earlier, calls>>

\* Mutant: the left child's output is returned whatever right.empty() said.
SeqReturn_always_adds_left ==
    /\ pc = "return"
    /\ LET out == M_add(frame.from_left, frame.from_right)
       IN  /\ result' = out
           /\ calls' = Append(calls, [c |-> frame.c, mark |-> frame.from_input,
                                      out |-> out, trace |-> frame.trace])
    /\ consumed' = Append(consumed, frame.c)
    /\ pc' = "ready"
    /\ UNCHANGED <<ver, sr, shape, re, earlier, frame>>

\* shifted(skip_empty_right) + shifted(from_right)
SeqReturn ==
    /\ pc = "return"
    /\ LET out == M_add(frame.skip_empty_right, frame.from_right)
       IN  /\ result' = out
           /\ calls' = Append(calls, [c |-> frame.c, mark |-> frame.from_input,
                                      out |-> out, trace |-> frame.trace])
    /\ consumed' = Append(consumed, frame.c)
    /\ pc' = "ready"
    /\ UNCHANGED <<ver, sr, shape, re, earlier, frame>>

\* The caller resets the tree between two rounds.
SeqReset ==
    /\ pc = "ready"
    /\ Len(consumed) >= 1
    /\ re' = Regex_reset(re)
    /\ consumed' = <<>>
    /\ UNCHANGED <<ver, sr, shape, result, pc, earlier, calls, frame>>

NextSeq ==
    \/ \E c \in Sigma, mark \in {zero, one} : SeqCall(c, mark)
    \/ SeqLeftEmpty
    \/ SeqLeftShift
    \/ SeqRightEmpty
    \/ SeqReplace
    \/ SeqRightShift
    \/ SeqReturn
    \/ SeqReset

SpecSeq == InitSeq /\ [][NextSeq]_vars

\* ------------------------------------------------- a caller that clones
\* A caller of the trait that may also clone the tree it holds, at any
\* point of a match, and go on with the original or with the clone.  frame
\* holds the tree as it was when clone was called and the tree returned.
CloneShapes ==
    CallShapes \cup Nested
    \cup {many(add(is("open"), is("close"))), Not_not(many(is("open")))}

InitClone ==
    /\ ver \in {"core", "grammars"}
    /\ sr \in {"Match", "Count"}
    /\ shape \in CloneShapes
    /\ re = shape
    /\ consumed = <<>>
    /\ result = zero
    /\ pc = "calls"
    /\ earlier = "none"
    /\ calls = <<>>
    /\ frame = no_frame

\* Mutant: the clone call resets the tree it is called on.
CloneCall_resets_original ==
    /\ pc = "calls"
    /\ frame' = [trace |-> <<>>, before |-> re, ret |-> Regex_clone(re)]
    /\ re' = Regex_reset(re)
    /\ pc' = "cloned"
    /\ UNCHANGED <<ver, sr, shape, consumed, result, earlier, calls>>

\* let copy = re.clone();  clone takes &self, so re is as it was.
CloneCall ==
    /\ pc = "calls"
    /\ frame' = [trace |-> <<>>, before |-> re, ret |-> Regex_clone(re)]
    /\ pc' = "cloned"
    /\ UNCHANGED <<ver, sr, shape, re, consumed, result, earlier, calls>>

\* The clone is dropped and the match goes on with the original.
KeepOriginal ==
    /\ pc = "cloned"
    /\ frame' = no_frame
    /\ pc' = "calls"
    /\ UNCHANGED <<ver, sr, shape, re, consumed, result, earlier, calls>>

\* The original is dropped; the clone has consumed nothing.
KeepClone ==
    /\ pc = "cloned"
    /\ re' = frame.ret
    /\ consumed' = <<>>
    /\ frame' = no_frame
    /\ pc' = "calls"
    /\ UNCHANGED <<ver, sr, shape, result, earlier, calls>>

NextClone ==
    \/ CallEmpty
    \/ \E c \in Sigma, mark \in {zero, one} : CallShift(c, mark)
    \/ CallReset
    \/ CloneCall
    \/ KeepOriginal
    \/ KeepClone

SpecClone == InitClone /\ [][NextClone]_vars

\* ------------------------------------------------------------ vocabulary
\* The driver returned a weight that is not the additive identity.
accepts == ~is_zero(result)

\* Whether a grammar matches the empty sequence, read off its composition:
\* Empty does, is(f) does not, a repetition does, a complement does when its
\* child does not, an alternation when either child does, an intersection
\* and a sequence when both do, a lazy grammar when what it constructs does.
RECURSIVE can_match_empty(_)
can_match_empty(g) ==
    CASE g.kind = "Empty" -> TRUE
      [] g.kind = "Is" -> FALSE
      [] g.kind = "Many" -> TRUE
      [] g.kind = "Not" -> ~can_match_empty(g.re)
      [] g.kind = "Or" -> can_match_empty(g.left) \/ can_match_empty(g.right)
      [] g.kind = "And" -> can_match_empty(g.left) /\ can_match_empty(g.right)
      [] g.kind = "Sequence" -> can_match_empty(g.left) /\ can_match_empty(g.right)
      [] g.kind = "Thunk" -> can_match_empty(construct(g.constructor))

\* A repetition's buffer holds nothing.
marked_clear(g) == IF ver = "core" THEN g.marked = None ELSE is_zero(g.marked)

\* Every Sequence buffer of the tree is zero, every Many buffer is cleared
\* and every Thunk is without a forced child.
RECURSIVE is_reset(_)
is_reset(g) ==
    CASE g.kind \in {"Empty", "Is"} -> TRUE
      [] g.kind = "Not" -> is_reset(g.re)
      [] g.kind \in {"Or", "And"} -> is_reset(g.left) /\ is_reset(g.right)
      [] g.kind = "Sequence" ->
            is_zero(g.from_left) /\ is_reset(g.left) /\ is_reset(g.right)
      [] g.kind = "Many" -> marked_clear(g) /\ is_reset(g.re)
      [] g.kind = "Thunk" -> g.value = None

\* Every buffer of the tree is clear, in the forced children of its Thunks
\* as well.
RECURSIVE buffers_clear(_)
buffers_clear(g) ==
    CASE g.kind \in {"Empty", "Is"} -> TRUE
      [] g.kind = "Not" -> buffers_clear(g.re)
      [] g.kind \in {"Or", "And"} -> buffers_clear(g.left) /\ buffers_clear(g.right)
      [] g.kind = "Sequence" ->
            is_zero(g.from_left) /\ buffers_clear(g.left) /\ buffers_clear(g.right)
      [] g.kind = "Many" -> marked_clear(g) /\ buffers_clear(g.re)
      [] g.kind = "Thunk" -> g.value = None \/ buffers_clear(g.value[1])

\* The nodes of a tree: the node itself, its children and the forced
\* children of its Thunks.
RECURSIVE nodes(_)
nodes(g) ==
    {g} \cup
    CASE g.kind \in {"Empty", "Is"} -> {}
      [] g.kind \in {"Not", "Many"} -> nodes(g.re)
      [] g.kind \in {"Or", "And", "Sequence"} -> nodes(g.left) \cup nodes(g.right)
      [] g.kind = "Thunk" -> IF g.value = None THEN {} ELSE nodes(g.value[1])

\* The transient state of a tree up to the forcing of a Thunk: a forced
\* child whose buffers are all clear carries no more state than none.
RECURSIVE transient(_)
transient(g) ==
    CASE g.kind \in {"Empty", "Is"} -> g
      [] g.kind \in {"Not", "Many"} -> [g EXCEPT !.re = transient(g.re)]
      [] g.kind \in {"Or", "And", "Sequence"} ->
            [g EXCEPT !.left = transient(g.left), !.right = transient(g.right)]
      [] g.kind = "Thunk" ->
            IF g.value = None \/ buffers_clear(g.value[1])
            THEN [g EXCEPT !.value = None]
            ELSE [g EXCEPT !.value = Some(transient(g.value[1]))]

\* How many forced Thunks lie one inside the other.
RECURSIVE thunk_depth(_)
thunk_depth(g) ==
    LET max(a, b) == IF a >= b THEN a ELSE b
    IN  CASE g.kind \in {"Empty", "Is"} -> 0
          [] g.kind \in {"Not", "Many"} -> thunk_depth(g.re)
          [] g.kind \in {"Or", "And", "Sequence"} ->
                max(thunk_depth(g.left), thunk_depth(g.right))
          [] g.kind = "Thunk" ->
                IF g.value = None THEN 0 ELSE 1 + thunk_depth(g.value[1])

\* How many nodes a tree holds, forced children included.
RECURSIVE node_count(_)
node_count(g) ==
    1 + CASE g.kind \in {"Empty", "Is"} -> 0
          [] g.kind \in {"Not", "Many"} -> node_count(g.re)
          [] g.kind \in {"Or", "And", "Sequence"} ->
                node_count(g.left) + node_count(g.right)
          [] g.kind = "Thunk" ->
                IF g.value = None THEN 0 ELSE node_count(g.value[1])

\* The values of the weight type M.
is_weight(m) == IF sr = "Match" THEN m \in {Match(FALSE), Match(TRUE)} ELSE m \in Nat

\* The mark a repetition holds in its buffer.
buffered(g) == IF ver = "core" /\ g.marked = None THEN zero
               ELSE IF ver = "core" THEN g.marked[1] ELSE g.marked

\* A shift of the node n with symbol c and mark m has advanced every direct
\* child by exactly one shift with c: the child is in the state one shift
\* leaves it in, and in a Sequence the right child was handed the old
\* from_left once and from_left now holds the left child's output.
advanced_once(n, c, m) ==
    LET s == Regex_shift(n, c, m)
    IN  CASE n.kind \in {"Empty", "Is"} -> s.self = n
          [] n.kind = "Not" -> s.self.re = shift(n.re, c, m).self
          [] n.kind \in {"Or", "And"} ->
                /\ s.self.left = shift(n.left, c, m).self
                /\ s.self.right = shift(n.right, c, m).self
          [] n.kind = "Many" ->
                s.self.re = shift(n.re, c, M_add(m, buffered(n))).self
          [] n.kind = "Sequence" ->
                LET le == Regex_empty(n.left)
                    ri == Regex_empty(n.right)
                    l == shift(le.self, c, m)
                    r == shift(ri.self, c,
                               M_add(IF le.val THEN m ELSE zero, n.from_left))
                IN  /\ s.self.left = l.self
                    /\ s.self.right = r.self
                    /\ s.self.from_left = l.out
                    /\ s.out = M_add(IF ri.val THEN l.out ELSE zero, r.out)
          [] n.kind = "Thunk" ->
                /\ s.self.value # None
                /\ s.self.value[1] = Regex_shift(Thunk_force(n).value[1], c, m).self

\* Where in a trace a call was made (0: not made), and the call itself.
position(trace, name) ==
    IF \E i \in 1..Len(trace) : trace[i].call = name
    THEN CHOOSE i \in 1..Len(trace) : trace[i].call = name
    ELSE 0
made(trace, name) == trace[position(trace, name)]

\* The round of Sequence::shift that returned last.
last_round == calls[Len(calls)]

\* The left child's output of the round before the last one; zero() when
\* the last round was the first after construction or a reset.
left_out_before ==
    IF Len(consumed) >= 2
    THEN made(calls[Len(calls) - 1].trace, "left.shift").ret
    ELSE zero

\* A repetition as the Many of core.rs and as the Many of grammars.rs hold
\* it: the same child and the same buffered mark.
as_core_Many(g) == IF ver = "core" THEN g ELSE [g EXCEPT !.marked = Some(g.marked)]
as_grammars_Many(g) == [g EXCEPT !.marked = buffered(g)]

\* `after` is `before` with the same buffers throughout, except that Thunks
\* without a child in `before` may hold one in `after`, as constructed or
\* with Thunks of its own forced in the same way.
RECURSIVE only_forced(_, _)
only_forced(before, after) ==
    /\ after.kind = before.kind
    /\ CASE before.kind \in {"Empty", "Is"} -> after = before
         [] before.kind = "Not" -> only_forced(before.re, after.re)
         [] before.kind \in {"Or", "And"} ->
               only_forced(before.left, after.left) /\ only_forced(before.right, after.right)
         [] before.kind = "Sequence" ->
               /\ after.from_left = before.from_left
               /\ only_forced(before.left, after.left)
               /\ only_forced(before.right, after.right)
         [] before.kind = "Many" ->
               after.marked = before.marked /\ only_forced(before.re, after.re)
         [] before.kind = "Thunk" ->
               /\ after.constructor = before.constructor
               /\ IF before.value = None
                  THEN after.value = None
                       \/ only_forced(construct(before.constructor), after.value[1])
                  ELSE after.value # None
                       /\ only_forced(before.value[1], after.value[1])

\* The most nodes one invocation of a constructor builds.
constructed_nodes ==
    LET sizes == {node_count(construct(k)) : k \in {"parens", "delayed", "complement"}}
    IN  CHOOSE m \in sizes : \A x \in sizes : x <= m

\* The language a grammar denotes: Empty the empty sequence, is(f) the
\* one-symbol sequences f holds of, Or the union, And the intersection, Not
\* the complement, Sequence the concatenation over every split, Many the
\* Kleene star, a lazy grammar the language of what it constructs.
RECURSIVE denotes(_, _)
denotes(g, w) ==
    LET n == Len(w)
        prefix(i) == SubSeq(w, 1, i)
        suffix(i) == SubSeq(w, i + 1, n)
    IN  CASE g.kind = "Empty" -> n = 0
          [] g.kind = "Is" -> n = 1 /\ Holds(g.f, w[1])
          [] g.kind = "Or" -> denotes(g.left, w) \/ denotes(g.right, w)
          [] g.kind = "And" -> denotes(g.left, w) /\ denotes(g.right, w)
          [] g.kind = "Not" -> ~denotes(g.re, w)
          [] g.kind = "Sequence" ->
                \E i \in 0..n : denotes(g.left, prefix(i)) /\ denotes(g.right, suffix(i))
          [] g.kind = "Many" ->
                n = 0 \/ \E i \in 1..n : denotes(g.re, prefix(i)) /\ denotes(g, suffix(i))
          [] g.kind = "Thunk" -> denotes(construct(g.constructor), w)

\* A grammar built only from Empty, is, Or, Sequence and Many.
RECURSIVE is_regular(_)
is_regular(g) ==
    CASE g.kind \in {"Empty", "Is"} -> TRUE
      [] g.kind \in {"Or", "Sequence"} -> is_regular(g.left) /\ is_regular(g.right)
      [] g.kind = "Many" -> is_regular(g.re)
      [] g.kind \in {"Not", "And", "Thunk"} -> FALSE

\* Every node of the tree `after` answers can_match_empty() as the node at
\* the same place of the tree `before` does; a lazy subtree not yet
\* constructed stands for what its constructor builds.
RECURSIVE same_empty(_, _)
same_empty(before, after) ==
    /\ after.kind = before.kind
    /\ Regex_empty(after).val = Regex_empty(before).val
    /\ CASE before.kind \in {"Empty", "Is"} -> TRUE
         [] before.kind \in {"Not", "Many"} -> same_empty(before.re, after.re)
         [] before.kind \in {"Or", "And", "Sequence"} ->
               same_empty(before.left, after.left) /\ same_empty(before.right, after.right)
         [] before.kind = "Thunk" ->
               after.value # None =>
                   same_empty(IF before.value = None
                              THEN construct(before.constructor)
                              ELSE before.value[1],
                              after.value[1])

\* A grammar built without a lazy subtree.
RECURSIVE is_strict(_)
is_strict(g) ==
    CASE g.kind \in {"Empty", "Is"} -> TRUE
      [] g.kind \in {"Or", "And", "Sequence"} -> is_strict(g.left) /\ is_strict(g.right)
      [] g.kind \in {"Not", "Many"} -> is_strict(g.re)
      [] g.kind = "Thunk" -> FALSE

\* Inputs an earlier, independent match may have been over.
RECURSIVE Inputs(_)
Inputs(n) ==
    IF n = 0 THEN {<<>>}
    ELSE LET shorter == Inputs(n - 1)
         IN  shorter \cup {Append(w, c) : w \in {v \in shorter : Len(v) = n - 1}, c \in Sigma}

PrevInputs == Inputs(MaxPrev)

\* The weight of a match over `over` on a tree that has already been
\* through a match over `prev`.
rematch(tree, prev, over) == match_regex(match_regex(tree, prev).self, over).out

\* reference() of the balanced_parens test: the nesting depth after each
\* symbol (-1 is yielded for a symbol that is no parenthesis and leaves the
\* depth as it was), all() stopping at the first negative value.
RECURSIVE depth_after(_, _)
depth_after(s, i) ==
    IF i = 0 THEN 0
    ELSE LET depth == depth_after(s, i - 1)
         IN  CASE s[i] = "(" -> depth + 1
               [] s[i] = ")" -> depth - 1
               [] OTHER -> depth

scanned(s, i) == IF s[i] \in {"(", ")"} THEN depth_after(s, i) ELSE -1

reference(s) ==
    LET failing == {i \in 1..Len(s) : scanned(s, i) < 0}
        valid_nesting == failing = {}
        stop == IF valid_nesting THEN Len(s)
                ELSE CHOOSE i \in failing : \A j \in failing : i <= j
        last_depth == IF stop = 0 THEN 0 ELSE scanned(s, stop)
    IN  valid_nesting /\ last_depth = 0

\* ================================================================ claims

\* C1: with Match weights, whenever the driver returns from a match on the
\* recursive grammar parens = many(is('(') + delay(parens) + is(')')), the
\* boolean it returns is TRUE iff the input has no symbol other than
\* parentheses and its parentheses are balanced and properly nested
\* (reference), also when the same tree instance has been used before.
C1_BalancedParens ==
    (pc = "returned" /\ sr = "Match" /\ shape = parens)
        => (result[1] <=> reference(consumed))

C1_Witness ==
    /\ pc = "returned" /\ sr = "Match" /\ shape = parens /\ earlier = "symbols"
    /\ consumed = <<"(", "(", ")", "(", ")", ")">>
    /\ result[1]


\* C2: Sequence(Empty, L) and Sequence(L, Empty) return the weight L alone
\* returns on the same input, whatever match either tree went through
\* before (L may be a repetition, which buffers a mark between symbols).
C2_SequenceEmptyIdentity ==
    (pc = "returned" /\ shape.kind = "Sequence") =>
        /\ shape.left = empty =>
             \A prev \in PrevInputs : result = rematch(shape.right, prev, consumed)
        /\ shape.right = empty =>
             \A prev \in PrevInputs : result = rematch(shape.left, prev, consumed)

C2_Witness ==
    /\ pc = "returned" /\ earlier = "symbols"
    /\ shape = add(many(is("open")), empty)
    /\ consumed = <<"(", "(">>
    /\ accepts

\* C3: a match on a tree that went through an earlier match returns the
\* weight a match over the same input returns on the tree as constructed,
\* and the reset that ends a match leaves the tree equal to the tree as
\* constructed (every from_left and marked cleared, every Thunk unforced).
C3_ResetReusable ==
    (pc = "returned" /\ earlier # "none") =>
        /\ result = match_regex(shape, consumed).out
        /\ Len(consumed) > 0 => re = shape

C3_Witness ==
    /\ pc = "returned" /\ earlier = "symbols"
    /\ shape = add(many(is("open")), is("close"))
    /\ consumed = <<"(", "(", ")">>
    /\ accepts

\* C4: with Match weights Or(L, R) accepts an input iff L accepts it or R
\* accepts it, so Or(L, R) and Or(R, L) accept the same inputs; is(any)|empty
\* and empty|is(any) accept exactly the inputs of length at most 1.
C4_OrAccepts ==
    (pc = "returned" /\ sr = "Match" /\ shape.kind = "Or") =>
        /\ result[1] <=>
             (has_match(shape.left, consumed) \/ has_match(shape.right, consumed))
        /\ result[1] <=> has_match(bitor(shape.right, shape.left), consumed)
        /\ shape \in {bitor(is("any"), empty), bitor(empty, is("any"))} =>
             (result[1] <=> Len(consumed) <= 1)

C4_Witness ==
    /\ pc = "returned" /\ sr = "Match"
    /\ shape = bitor(is("open"), is("close"))
    /\ consumed = <<")">>
    /\ result[1]

\* C5 as stated: with counting weights the weight of Or(L, R) on every
\* input, the empty one included, is L's weight plus R's weight.
C5_OrWeightIsSum ==
    (pc = "returned" /\ sr = "Count" /\ shape.kind = "Or") =>
        result = Count_add(match_regex(shape.left, consumed).out,
                           match_regex(shape.right, consumed).out)

\* C5 as amended: with counting weights the weight of Or(L, R) on every
\* input of at least one symbol is L's weight plus R's weight; on the empty
\* input the driver returns one if L or R can match empty and zero if
\* neither can.
C5_OrWeightIsSumOfShifts ==
    (pc = "returned" /\ sr = "Count" /\ shape.kind = "Or") =>
        IF Len(consumed) > 0
        THEN result = Count_add(match_regex(shape.left, consumed).out,
                                match_regex(shape.right, consumed).out)
        ELSE result = IF \/ match_regex(shape.left, consumed).out = Count_one
                         \/ match_regex(shape.right, consumed).out = Count_one
                      THEN Count_one ELSE Count_zero

C5_Witness ==
    /\ pc = "returned" /\ sr = "Count"
    /\ shape = bitor(is("any"), bitor(empty, is("any")))
    /\ consumed = <<"x">>
    /\ result = 2

\* C6: the weight of And(L, R) on every input is L's weight times R's
\* weight; with Match weights many(is(p)) & many(is(q)) accepts exactly the
\* inputs whose every symbol satisfies p and q, and is(any) & empty accepts
\* nothing.
C6_AndWeightIsProduct ==
    (pc = "returned" /\ shape.kind = "And") =>
        /\ result = M_mul(match_regex(shape.left, consumed).out,
                          match_regex(shape.right, consumed).out)
        /\ shape = bitand(many(is("paren")), many(is("not_open"))) =>
             (accepts <=> \A i \in 1..Len(consumed) :
                             Holds("paren", consumed[i]) /\ Holds("not_open", consumed[i]))
        /\ shape = bitand(is("any"), empty) => ~accepts

C6_Witness ==
    /\ pc = "returned" /\ sr = "Match"
    /\ shape = bitand(many(is("paren")), many(is("not_open")))
    /\ consumed = <<")", ")", ")">>
    /\ result[1]

\* C7: with Match weights Not(L) accepts an input iff L does not accept it;
\* !empty accepts exactly the non-empty inputs and !many(is(p)) exactly the
\* inputs with a symbol that fails p.
C7_NotComplements ==
    (pc = "returned" /\ sr = "Match" /\ shape.kind = "Not") =>
        /\ result[1] <=> ~has_match(shape.re, consumed)
        /\ shape = Not_not(empty) => (result[1] <=> Len(consumed) > 0)
        /\ shape = Not_not(many(is("open"))) =>
             (result[1] <=> \E i \in 1..Len(consumed) : ~Holds("open", consumed[i]))

C7_Witness ==
    /\ pc = "returned" /\ sr = "Match"
    /\ shape = Not_not(many(is("open")))
    /\ consumed = <<"(", "x", "(">>
    /\ result[1]

\* C8: Empty accepts an input iff the input has no symbol: its shift
\* returns zero whatever mark comes in and its empty() is true.
C8_EmptyAcceptsOnlyEmpty ==
    /\ (pc = "returned" /\ shape = empty) => (accepts <=> Len(consumed) = 0)
    /\ \A c \in Sigma : \A mark \in {zero, one, M_add(one, one)} :
           Empty_shift(empty, c, mark) = [self |-> empty, out |-> zero]
    /\ Empty_empty(empty).val

C8_Witness ==
    /\ pc = "returned" /\ shape = empty
    /\ consumed = <<"x">>
    /\ ~accepts

\* C9: is(p) accepts an input iff the input is exactly one symbol and p
\* holds for it; longer inputs are rejected whatever p says of their
\* symbols.
C9_IsAcceptsOneSymbol ==
    (pc = "returned" /\ shape.kind = "Is") =>
        (accepts <=> (Len(consumed) = 1 /\ Holds(shape.f, consumed[1])))

C9_Witness ==
    /\ pc = "returned"
    /\ shape = is("any")
    /\ consumed = <<"x", "x">>
    /\ ~accepts

\* C10: with Match weights many(is(p)) accepts an input iff every symbol
\* satisfies p (so many(is(any)) accepts every input), and many(L) accepts
\* the empty input for every L.
C10_ManyOfIs ==
    /\ (pc = "returned" /\ sr = "Match" /\ shape.kind = "Many" /\ shape.re.kind = "Is") =>
           (result[1] <=> \A i \in 1..Len(consumed) : Holds(shape.re.f, consumed[i]))
    /\ (pc = "returned" /\ shape.kind = "Many" /\ Len(consumed) = 0) => accepts

C10_Witness ==
    /\ pc = "returned" /\ sr = "Match" /\ earlier = "symbols"
    /\ shape = many(is("open"))
    /\ consumed = <<"(", "(", "(">>
    /\ result[1]


\* C11 as stated: many(many(L)) returns the weight many(L) returns, for
\* every L, every input and every weight type.
C11_ManyManySameWeight ==
    (pc = "returned" /\ shape.kind = "Many" /\ shape.re.kind = "Many") =>
        result = match_regex(shape.re, consumed).out

\* C11 as amended: with Match weights many(many(L)) returns the weight
\* many(L) returns; with counting weights the two weights are both zero or
\* both non-zero; many(many(is(p))) accepts exactly the inputs whose every
\* symbol satisfies p.
C11_ManyManySameMatch ==
    (pc = "returned" /\ shape.kind = "Many" /\ shape.re.kind = "Many") =>
        /\ sr = "Match" => result = match_regex(shape.re, consumed).out
        /\ accepts <=> ~is_zero(match_regex(shape.re, consumed).out)
        /\ shape.re.re.kind = "Is" =>
             (accepts <=> \A i \in 1..Len(consumed) : Holds(shape.re.re.f, consumed[i]))

C11_Witness ==
    /\ pc = "returned" /\ sr = "Count"
    /\ shape = many(many(is("open")))
    /\ consumed = <<"(", "(">>
    /\ result = 2
    /\ match_regex(shape.re, consumed).out = 1

\* C12: many(Empty) returns the weight Empty returns on every input: one on
\* the empty input and zero on every other input.
C12_ManyOfEmpty ==
    (pc = "returned" /\ shape = many(empty)) =>
        /\ result = match_regex(empty, consumed).out
        /\ accepts <=> Len(consumed) = 0

C12_Witness ==
    /\ pc = "returned" /\ shape = many(empty) /\ earlier = "symbols"
    /\ consumed = <<"x", "x">>
    /\ ~accepts

\* C13: over an input of n >= 1 symbols the driver calls shift on the root
\* exactly n times, once per symbol in input order, passing one() with the
\* first symbol and zero() with every later one, and returns the weight the
\* last of these calls returned.
C13_OneShiftPerSymbol ==
    (pc \in {"loop", "returned"} /\ Len(consumed) >= 1) =>
        /\ Len(calls) = Len(consumed)
        /\ \A i \in 1..Len(calls) :
              /\ calls[i].c = consumed[i]
              /\ calls[i].mark = (IF i = 1 THEN one ELSE zero)
        /\ result = calls[Len(calls)].out

C13_Witness ==
    /\ pc = "returned" /\ shape = add(is("open"), is("close"))
    /\ consumed = <<"(", ")">>
    /\ Len(calls) = 2
    /\ calls[1].mark = one /\ calls[2].mark = zero
    /\ ~is_zero(calls[2].out) /\ accepts

\* C14: on the empty input the driver calls shift not at all and returns
\* one() when the root can match empty and zero() otherwise, where Empty can,
\* is(f) cannot, Many can, Not negates its child, Or takes the disjunction
\* and And and Sequence the conjunction of their children.
C14_EmptyInput ==
    (pc = "returned" /\ Len(consumed) = 0) =>
        /\ calls = <<>>
        /\ result = (IF can_match_empty(shape) THEN one ELSE zero)

C14_Witness ==
    /\ pc = "returned" /\ Len(consumed) = 0
    /\ shape = add(bitor(empty, is("any")), Not_not(is("open")))
    /\ result = one

\* C15 as stated: whenever match_regex returns, on the empty input as well,
\* every Sequence buffer is zero, every Many buffer is cleared and every
\* Thunk has discarded its forced child.
C15_ResetOnReturn == pc = "returned" => is_reset(re)

\* C15 as amended: when match_regex returns from an input of at least one
\* symbol the tree has been reset; when it returns from the empty input
\* every buffer is clear, but a Thunk that empty() forced keeps its child.
C15_ResetAfterSymbols ==
    pc = "returned" =>
        IF Len(consumed) >= 1 THEN is_reset(re) ELSE buffers_clear(re)

C15_Witness ==
    /\ pc = "returned" /\ shape = parens
    /\ consumed = <<"(", "(", ")", ")">>
    /\ accepts
    /\ is_reset(re)

\* C16: active() is a pure optimisation: for every node of the tree in every
\* reachable state, if active() is false then a shift with zero() returns
\* zero() and leaves the transient state of the node and of its whole
\* subtree as it was.
C16_InactiveShiftIsNoOp ==
    ver = "grammars" =>
        \A n \in nodes(re) :
            ~Regex_active(n) =>
                \A c \in Sigma :
                    LET s == Regex_shift(n, c, zero)
                    IN  is_zero(s.out) /\ transient(s.self) = transient(n)

\* C17: every shift terminates, on the self-referential grammar parens as
\* well: a shift of the root forces at most one more level of Thunks, so
\* that after n symbols at most n levels are forced and the tree holds at
\* most the nodes it was composed of and n times what a constructor builds.
C17_ForcingBounded ==
    (pc \in {"loop", "returned"} /\ Len(consumed) >= 1) =>
        /\ thunk_depth(re) <= Len(consumed)
        /\ node_count(re) <= node_count(shape) + Len(consumed) * constructed_nodes

C17_Witness ==
    /\ pc = "loop" /\ shape = parens
    /\ consumed = <<"(", "(", "(">>
    /\ thunk_depth(re) = 3
    /\ node_count(re) = 4 * node_count(shape)

\* C18 as stated: after any shifts, can_match_empty() of the root is true
\* iff the grammar accepts a zero-length continuation of what it has
\* consumed, that is iff the input consumed so far is accepted (for a root
\* that has consumed nothing: iff the grammar matches the empty sequence).
C18_EmptyFollowsConsumed ==
    pc \in {"idle", "loop"} =>
        (Regex_empty(re).val <=>
            IF Len(consumed) = 0 THEN can_match_empty(shape) ELSE accepts)

\* C18 as amended: for every node of the tree, after any shifts,
\* can_match_empty() is true iff the node's grammar matches the empty
\* sequence, whatever the node has consumed.
C18_EmptyIsOfTheGrammar ==
    \A n \in nodes(re) : Regex_empty(n).val <=> can_match_empty(n)

C18_Witness ==
    /\ pc = "loop" /\ shape = add(is("open"), many(is("any")))
    /\ consumed = <<"(", "x">>
    /\ accepts
    /\ ~Regex_empty(re).val
    /\ Regex_empty(re.right).val

C20_ShiftOnce ==
    \A n \in nodes(re) : \A c \in Sigma : \A m \in {zero, one} :
        advanced_once(n, c, m)

C20_Witness ==
    /\ pc = "calls" /\ sr = "Count" /\ ver = "grammars"
    /\ shape = bitand(many(is("paren")), many(is("not_open")))
    /\ consumed = <<")", ")">>
    /\ calls[1].mark = one /\ calls[2].mark = one
    /\ re.left.marked = 2
    /\ advanced_once(re, ")", one)
    /\ Regex_shift(re, ")", one).self.left.marked = 3

\* C21 as stated: in every Sequence shift both left.empty() and
\* right.empty() have been evaluated before any child is shifted.
C21_BothEmptyBeforeAnyShift ==
    \A i \in 1..Len(frame.trace) :
        frame.trace[i].call \in {"left.shift", "right.shift"} =>
            /\ position(frame.trace, "left.empty") \in 1..(i - 1)
            /\ position(frame.trace, "right.empty") \in 1..(i - 1)

\* C21 as amended: in every Sequence shift each child's empty() is
\* evaluated before that child is shifted (right.empty() after the left
\* child has been shifted), and the value it returns is the one it had in
\* the state before the current symbol.
C21_EmptyBeforeOwnShift ==
    LET t == frame.trace
    IN  /\ position(t, "left.shift") # 0 =>
              /\ position(t, "left.empty") \in 1..(position(t, "left.shift") - 1)
              /\ made(t, "left.empty").ret = Regex_empty(frame.before.left).val
        /\ position(t, "right.empty") # 0 =>
              /\ position(t, "left.shift") \in 1..(position(t, "right.empty") - 1)
              /\ made(t, "right.empty").ret = Regex_empty(frame.before.right).val
        /\ position(t, "right.shift") # 0 =>
              position(t, "right.empty") \in 1..(position(t, "right.shift") - 1)

C21_Witness ==
    /\ pc = "ready" /\ shape = add(many(is("open")), bitor(empty, is("any")))
    /\ consumed = <<"(", "x">>
    /\ position(frame.trace, "left.shift") = 2
    /\ position(frame.trace, "right.empty") = 3
    /\ made(frame.trace, "right.empty").ret
    /\ frame.before.left # shape.left

\* C22: in every Sequence shift the right child is handed the left child's
\* output of the round before (zero() in the first round after construction
\* or reset), plus the incoming mark iff left.empty() held; the left child's
\* output of this round is stored in from_left for the next round.
C22_RightGetsPreviousLeft ==
    (pc = "ready" /\ Len(consumed) >= 1) =>
        LET t == last_round.trace
        IN  /\ made(t, "right.shift").arg =
                  M_add(IF can_match_empty(shape.left) THEN last_round.mark ELSE zero,
                        left_out_before)
            /\ re.from_left = made(t, "left.shift").ret
            /\ made(t, "left.shift").arg = last_round.mark

C22_Witness ==
    /\ pc = "ready" /\ sr = "Count"
    /\ shape = add(bitor(empty, is("any")), is("any"))
    /\ consumed = <<"x", "x">>
    /\ calls[1].mark = one /\ calls[2].mark = one
    /\ made(calls[1].trace, "left.shift").ret = 1
    /\ made(last_round.trace, "right.shift").arg = 2
    /\ result = 2

\* C23: every Sequence shift returns the right child's output of this
\* round, plus the left child's output of this round iff right.empty()
\* held; it is the weight and the tree Sequence::shift as one call yields.
C23_ReturnsRightPlusLeftIfEmpty ==
    (pc = "ready" /\ Len(consumed) >= 1) =>
        LET t == last_round.trace
            whole == Sequence_shift(frame.before, last_round.c, last_round.mark)
        IN  /\ result = M_add(IF can_match_empty(shape.right)
                                THEN made(t, "left.shift").ret ELSE zero,
                              made(t, "right.shift").ret)
            /\ last_round.out = result
            /\ whole.out = result
            /\ whole.self = re

C23_Witness ==
    /\ pc = "ready"
    /\ shape = add(is("open"), is("any"))
    /\ consumed = <<"(">>
    /\ last_round.mark = one
    /\ made(last_round.trace, "left.shift").ret = one
    /\ result = zero

\* C24: every Many shift hands (incoming mark + buffered mark) to its
\* child and afterwards buffers the weight it returns; the buffer is zero()
\* after construction and after reset; the Option-based Many of core.rs and
\* the zero-initialised Many of grammars.rs return the same weights and
\* buffer the same marks.  The shifts examined are those the caller may
\* still make.
C24_ManyBuffersItsOutput ==
    /\ \A n \in nodes(re) : (n.kind = "Many" /\ Len(calls) < MaxCalls) =>
          \A c \in Sigma : \A m \in {zero, one} :
              LET s == Regex_shift(n, c, m)
                  child == shift(n.re, c, M_add(m, buffered(n)))
                  core == core_Many_shift(as_core_Many(n), c, m)
                  grammars == Many_shift(as_grammars_Many(n), c, m)
              IN  /\ s.out = child.out
                  /\ s.self.re = child.self
                  /\ buffered(s.self) = s.out
                  /\ core.out = grammars.out
                  /\ core.self.marked = Some(grammars.self.marked)
                  /\ core.self.re = grammars.self.re
    /\ \A n \in nodes(shape) \cup nodes(Regex_reset(re)) :
          n.kind = "Many" => n.marked = (IF ver = "core" THEN None ELSE zero)

C24_Witness ==
    /\ pc = "calls" /\ sr = "Count" /\ ver = "core"
    /\ shape = many(is("any"))
    /\ consumed = <<"x", "x">>
    /\ calls[1].mark = one /\ calls[2].mark = one
    /\ re.marked = Some(2)
    /\ core_Many_shift(re, "x", one).out = 3
    /\ Many_shift(as_grammars_Many(re), "x", one).self.marked = 3

\* C25: building a grammar invokes no Thunk's constructor; empty and shift
\* invoke it when the Thunk holds no child, and while a child is cached
\* (from the first use until the next reset) they reuse it without
\* invoking the constructor again; a reset empties the cache.
C25_ConstructorOncePerUse ==
    /\ \A n \in nodes(shape) : n.kind = "Thunk" => n.value = None
    /\ \A n \in nodes(re) : n.kind = "Thunk" =>
          /\ Thunk_force(n).value # None
          /\ n.value # None =>
                /\ Thunk_force(n) = n
                /\ Thunk_empty(n).self.value[1] = Regex_empty(n.value[1]).self
                /\ Len(calls) < MaxCalls =>
                    \A c \in Sigma : \A m \in {zero, one} :
                      Thunk_shift(n, c, m).self.value[1]
                          = Regex_shift(n.value[1], c, m).self
          /\ n.value = None =>
                Thunk_force(n).value[1] = construct(n.constructor)
    /\ \A n \in nodes(Regex_reset(re)) : n.kind = "Thunk" => n.value = None

C25_Witness ==
    /\ pc = "calls" /\ shape = parens
    /\ consumed = <<"(", "(">>
    /\ thunk_depth(re) = 2
    /\ ~buffers_clear(re.re.left.right.value[1])
    /\ Thunk_force(re.re.left.right) = re.re.left.right

\* C26: Thunk reset discards the cached child whatever its state; the
\* first empty or shift after the reset invokes the constructor again and
\* works on a child as constructed, with none of the discarded child's
\* state.  The shifts examined are those the caller may still make.
C26_ResetDiscardsChild ==
    \A n \in nodes(re) : n.kind = "Thunk" =>
        LET after == Thunk_reset(n)
            fresh == construct(n.constructor)
        IN  /\ after.value = None
            /\ after = delay(n.constructor)
            /\ Thunk_empty(after).self.value[1] = Regex_empty(fresh).self
            /\ Thunk_empty(after).val = Regex_empty(fresh).val
            /\ Len(calls) < MaxCalls =>
                \A c \in Sigma : \A m \in {zero, one} :
                  /\ Thunk_shift(after, c, m).self.value[1] = Regex_shift(fresh, c, m).self
                  /\ Thunk_shift(after, c, m).out = Regex_shift(fresh, c, m).out

C26_Witness ==
    /\ pc = "calls" /\ shape = parens
    /\ consumed = <<"(", "(">>
    /\ thunk_depth(re) = 2
    /\ ~buffers_clear(re.re.left.right.value[1])
    /\ Thunk_reset(re.re.left.right) = delay("parens")
    /\ Regex_reset(re) = shape

\* C27: empty() leaves every buffered weight of the tree unchanged; the
\* only state it may change is a Thunk's cache going from empty to forced;
\* a following shift returns the same weight whether or not empty() was
\* called before it.
C27_EmptyOnlyForces ==
    \A n \in nodes(re) :
        LET e == Regex_empty(n)
        IN  /\ only_forced(n, e.self)
            /\ \A c \in Sigma : \A m \in {zero, one} :
                  shift(e.self, c, m).out = shift(n, c, m).out

\* C28: with Match weights, for every grammar built only from Empty, is,
\* Or, Sequence and Many and every input w, the driver returns Match(true)
\* iff w belongs to the regular language the grammar denotes.
C28_RegularLanguage ==
    (pc = "returned" /\ sr = "Match" /\ is_regular(shape)) =>
        (result[1] <=> denotes(shape, consumed))

C28_Witness ==
    /\ pc = "returned" /\ sr = "Match" /\ earlier = "symbols"
    /\ shape = add(bitor(empty, is("any")), many(is("open")))
    /\ consumed = <<"x", "(", "(">>
    /\ result[1]
    /\ denotes(shape, consumed)

\* C29: with Match weights And and Not denote intersection and complement
\* at every position of the tree, as a child of Sequence or Many as well:
\* the driver returns Match(true) iff the input is in the language the
\* grammar denotes.
C29_AndNotDenoteEverywhere ==
    (pc = "returned" /\ sr = "Match" /\ is_strict(shape) /\ ~is_regular(shape)) =>
        (result[1] <=> denotes(shape, consumed))

\* C30: can_match_empty() of every node is determined by the shape of the
\* tree alone: after any sequence of shift, reset and can_match_empty()
\* calls every node of the tree answers as the node at the same place
\* answered when the tree was constructed, and a reset does not change the
\* answer of any node.
C30_EmptyIsStatic ==
    pc = "calls" =>
        /\ same_empty(shape, re)
        /\ same_empty(re, Regex_empty(re).self)
        /\ same_empty(shape, Regex_reset(re))

\* A sequence that matched a symbol, was reset and shifted again holds a
\* mark between its children.
C30_Witness ==
    /\ pc = "calls"
    /\ shape = add(is("open"), is("close"))
    /\ Len(calls) >= 2
    /\ Len(consumed) >= 1
    /\ Len(consumed) < Len(calls)
    /\ ~is_zero(re.from_left)
    /\ ~Regex_empty(re).val

\* C31: cloning a tree in any reachable state, also in the middle of a
\* match, returns the tree as it was constructed: the same shape with every
\* Sequence.from_left zero, every Many.marked cleared and every Thunk
\* unforced; the tree that was cloned is left as it was.
C31_CloneIsInitial ==
    pc = "cloned" =>
        /\ frame.ret = shape
        /\ is_reset(frame.ret)
        /\ re = frame.before

\* A repetition of a sequence is cloned while a mark waits between the
\* sequence's children.
C31_Witness ==
    /\ pc = "cloned"
    /\ shape = many(add(is("open"), is("close")))
    /\ consumed = <<"(">>
    /\ ~is_zero(re.re.from_left)
    /\ ~is_reset(re)
    /\ frame.ret # re

====
